---- MODULE Spec2Model ----
(***************************************************************************)
(* Model of the CLAHE binding of bytebot-cv/opencv4nodejs (CLAHE.cc).      *)
(*                                                                         *)
(* The binding resolves dynamically typed call arguments into a clip limit *)
(* (double) and a tile grid (cv::Size, two ints), creates the wrapped      *)
(* cv::CLAHE and forwards the setters and getters to it.                   *)
(*                                                                         *)
(* Script values are tagged records, doubles are records on a grid of      *)
(* 1/Scale with two classes outside the grid (NaN, and magnitudes that do  *)
(* not fit an int), cv::Size is a record of two ints.  static_cast<int> of *)
(* a NaN or out-of-range double is undefined behaviour: every operator     *)
(* that performs the cast returns the SET of its possible outcomes.        *)
(***************************************************************************)
EXTENDS Integers, Sequences, FiniteSets, TLC

VARIABLES instance, op, info, err, ret, created

vars == <<instance, op, info, err, ret, created>>

(***************************************************************************)
(* Bounds of the model.                                                    *)
(***************************************************************************)
\* doubles on the grid have integer parts MinInt-1 .. MaxInt (see GridInts)
MaxInt == 2
\* integer parts of the doubles offered to the object life cycle (Spec)
LifeMaxInt == 1

(***************************************************************************)
(* Doubles.  D(i, f) is the value i + f/Scale with 0 <= f < Scale.         *)
(***************************************************************************)
Scale == 4

IntMax == 2147483647
IntMin == -IntMax - 1

D(i, f) == [k |-> "fin", i |-> i, f |-> f]
NaN == [k |-> "nan", i |-> 0, f |-> 0]
\* a finite or infinite double above INT_MAX (e.g. 1e10, +Infinity)
PosBig == [k |-> "big", i |-> 1, f |-> 0]
\* a finite or infinite double below INT_MIN
NegBig == [k |-> "big", i |-> -1, f |-> 0]

\* a < b on doubles (IEEE: every comparison with NaN is false)
Less(a, b) ==
  IF a.k = "nan" \/ b.k = "nan" THEN FALSE
  ELSE IF a.k = "big" /\ b.k = "big" THEN a.i < b.i
  ELSE IF a.k = "big" THEN a.i < 0
  ELSE IF b.k = "big" THEN b.i > 0
  ELSE a.i < b.i \/ (a.i = b.i /\ a.f < b.f)

\* std::max(a, b) == (a < b) ? b : a
StdMax(a, b) == IF Less(a, b) THEN b ELSE a

\* a faulty std::round: the fraction is dropped (a cast without rounding)
Round_Truncate(d) ==
  IF d.k # "fin" THEN d
  ELSE IF d.i >= 0 \/ d.f = 0 THEN D(d.i, 0) ELSE D(d.i + 1, 0)

\* std::round: to the nearest integer, halfway cases away from zero
Round(d) ==
  IF d.k # "fin" THEN d
  ELSE IF d.i >= 0
    THEN D(IF 2 * d.f >= Scale THEN d.i + 1 ELSE d.i, 0)
    ELSE D(IF 2 * d.f > Scale THEN d.i + 1 ELSE d.i, 0)

\* the outcomes of static_cast<int> of a NaN or out-of-range double
\* (cvttsd2si gives INT_MIN, fcvtzs saturates and gives 0 for NaN,
\* fcvt.w.d gives INT_MAX for NaN)
CastUB == {IntMin, 0, IntMax}

\* static_cast<int>(d) for an integral d: the set of possible results
CastInt(d) == IF d.k = "fin" THEN {d.i} ELSE CastUB

\* int -> double (cv::Size2d(tiles.width, tiles.height)), exact
ToDouble(n) == D(n, 0)

(***************************************************************************)
(* Script values.                                                          *)
(***************************************************************************)
Undefined == [t |-> "undefined"]
Null == [t |-> "null"]
Number(d) == [t |-> "number", d |-> d]
\* a string that is not a numeric literal
String == [t |-> "string", s |-> "bad"]
Array(elems) == [t |-> "array", elems |-> elems]
\* fields: a function from the names of the properties to their values
Object(fields) == [t |-> "object", fields |-> fields]

IsUndefined(v) == v.t = "undefined"
IsNull(v) == v.t = "null"
IsNumber(v) == v.t = "number"
IsArray(v) == v.t = "array"
IsObject(v) == v.t \in {"array", "object"}

\* Nan::Has(obj, key); an array has none of the named properties
Has(obj, key) == obj.t = "object" /\ key \in DOMAIN obj.fields
\* Nan::Get(obj, key): a missing property reads as undefined
Get(obj, key) == IF Has(obj, key) THEN obj.fields[key] ELSE Undefined
\* Nan::Get(arr, index)
GetIndex(arr, n) == IF n < Len(arr.elems) THEN arr.elems[n + 1] ELSE Undefined

\* Nan::To<double>(v): the script ToNumber conversion of a primitive.  It is
\* Just(x) for every primitive modelled here, so FromMaybe's fallback is
\* never taken.
ToNumber(v) ==
  CASE v.t = "number" -> v.d
    [] v.t = "undefined" -> NaN
    [] v.t = "null" -> D(0, 0)
    [] v.t = "string" -> NaN

(***************************************************************************)
(* cv::Size and the helpers of the anonymous namespace.                    *)
(***************************************************************************)
Size(w, h) == [width |-> w, height |-> h]

Max(a, b) == IF a < b THEN b ELSE a

\* a faulty sanitizeSize: nothing is clamped
sanitizeSize_NoClamp(size) == size

sanitizeSize(size) == Size(Max(1, size.width), Max(1, size.height))

DefaultClipLimit == D(40, 0)
DefaultTiles == Size(8, 8)

\* the cv::Size values `cv::Size(static_cast<int>(std::round(width)),
\* static_cast<int>(std::round(height)))` can be, sanitized
RoundedSizes(width, height) ==
  {sanitizeSize(Size(w, h)) : w \in CastInt(Round(width)), h \in CastInt(Round(height))}

\* a faulty extractSize: the object form reads "width" for both components
RECURSIVE extractSize_WidthTwice(_, _)
extractSize_WidthTwice(value, out) ==
  IF IsArray(value) THEN
    IF Len(value.elems) < 2 THEN {[ok |-> FALSE, out |-> out]}
    ELSE {[ok |-> TRUE, out |-> s] :
            s \in RoundedSizes(ToNumber(GetIndex(value, 0)), ToNumber(GetIndex(value, 1)))}
  ELSE IF IsObject(value) /\ (Has(value, "width") \/ Has(value, "height")) THEN
    {[ok |-> TRUE, out |-> s] :
       s \in RoundedSizes(ToNumber(Get(value, "width")), ToNumber(Get(value, "width")))}
  ELSE IF IsObject(value) /\ Has(value, "tileGridSize") THEN
    extractSize_WidthTwice(Get(value, "tileGridSize"), out)
  ELSE IF IsNumber(value) THEN
    {[ok |-> TRUE, out |-> Size(Max(1, side), Max(1, side))] :
       side \in CastInt(Round(ToNumber(value)))}
  ELSE {[ok |-> FALSE, out |-> out]}

\* extractSize(value, out): the set of possible results, each the returned
\* flag and the value of the reference parameter `out` on return
RECURSIVE extractSize(_, _)
extractSize(value, out) ==
  IF IsArray(value) THEN
    IF Len(value.elems) < 2 THEN {[ok |-> FALSE, out |-> out]}
    ELSE {[ok |-> TRUE, out |-> s] :
            s \in RoundedSizes(ToNumber(GetIndex(value, 0)), ToNumber(GetIndex(value, 1)))}
  ELSE IF IsObject(value) /\ (Has(value, "width") \/ Has(value, "height")) THEN
    {[ok |-> TRUE, out |-> s] :
       s \in RoundedSizes(ToNumber(Get(value, "width")), ToNumber(Get(value, "height")))}
  ELSE IF IsObject(value) /\ Has(value, "tileGridSize") THEN
    extractSize(Get(value, "tileGridSize"), out)
  ELSE IF IsNumber(value) THEN
    {[ok |-> TRUE, out |-> Size(Max(1, side), Max(1, side))] :
       side \in CastInt(Round(ToNumber(value)))}
  ELSE {[ok |-> FALSE, out |-> out]}

\* parseClipLimit(value, clipLimit): the returned flag and the value of the
\* reference parameter on return
parseClipLimit(value, clipLimit) ==
  IF ~IsUndefined(value) /\ ~IsNull(value) THEN
    IF ~IsNumber(value) THEN [ok |-> FALSE, clipLimit |-> clipLimit]
    ELSE [ok |-> TRUE, clipLimit |-> ToNumber(value)]
  ELSE [ok |-> TRUE, clipLimit |-> clipLimit]

(***************************************************************************)
(* The wrapped algorithm object and the results of the handlers.           *)
(***************************************************************************)
NoError == "none"
InvalidArguments == "Invalid arguments for CLAHE constructor"
UnableTileGridSize == "Unable to parse tileGridSize"
UnableTilesGridSize == "Unable to parse tilesGridSize"
\* an error of a converter (FF::DoubleConverter, Mat::Converter), rethrown
Rethrown == "rethrown"

NoObject == [made |-> FALSE]
\* cv::createCLAHE(clipLimit, tiles)
createCLAHE(clipLimit, tiles) ==
  [made |-> TRUE, clipLimit |-> clipLimit, tilesGridSize |-> tiles]

\* a faulty IsOptions: an array is taken for a configuration object
IsOptions_ArraysToo(v) == IsObject(v) /\ ~IsNumber(v)

\* the first argument is a plain configuration object
IsOptions(v) == IsObject(v) /\ ~IsArray(v) /\ ~IsNumber(v)

\* a faulty first stage: the tile size of a configuration object is not read
FirstArgument_OptionsIgnoreSize(args) ==
  IF Len(args) > 0 /\ IsOptions(args[1]) THEN
    LET opts == args[1]
        clipLimit == IF Has(opts, "clipLimit")
                       THEN ToNumber(Get(opts, "clipLimit"))
                       ELSE DefaultClipLimit
    IN {[err |-> NoError, clipLimit |-> clipLimit, tiles |-> DefaultTiles]}
  ELSE IF Len(args) > 0 THEN
    LET p == parseClipLimit(args[1], DefaultClipLimit)
    IN IF p.ok
         THEN {[err |-> NoError, clipLimit |-> p.clipLimit, tiles |-> DefaultTiles]}
         ELSE {[err |-> IF r.ok THEN NoError ELSE InvalidArguments,
                clipLimit |-> p.clipLimit, tiles |-> r.out] :
                 r \in extractSize(args[1], DefaultTiles)}
  ELSE {[err |-> NoError, clipLimit |-> DefaultClipLimit, tiles |-> DefaultTiles]}

\* a faulty first stage: extractSize is tried before parseClipLimit, so a
\* bare number is taken for a square grid
FirstArgument_SizeFirst(args) ==
  IF Len(args) > 0 /\ IsOptions(args[1]) THEN
    LET opts == args[1]
        clipLimit == IF Has(opts, "clipLimit")
                       THEN ToNumber(Get(opts, "clipLimit"))
                       ELSE DefaultClipLimit
    IN {[err |-> NoError, clipLimit |-> clipLimit, tiles |-> r.out] :
          r \in extractSize(opts, DefaultTiles)}
  ELSE IF Len(args) > 0 THEN
    {IF r.ok
       THEN [err |-> NoError, clipLimit |-> DefaultClipLimit, tiles |-> r.out]
       ELSE LET p == parseClipLimit(args[1], DefaultClipLimit)
            IN [err |-> IF p.ok THEN NoError ELSE InvalidArguments,
                clipLimit |-> p.clipLimit, tiles |-> r.out] :
     r \in extractSize(args[1], DefaultTiles)}
  ELSE {[err |-> NoError, clipLimit |-> DefaultClipLimit, tiles |-> DefaultTiles]}

\* lines 102-110 of CLAHE::New: the possible values of (thrown error,
\* clipLimit, tiles) after the dispatch on the first argument
FirstArgument(args) ==
  IF Len(args) > 0 /\ IsOptions(args[1]) THEN
    LET opts == args[1]
        clipLimit == IF Has(opts, "clipLimit")
                       THEN ToNumber(Get(opts, "clipLimit"))
                       ELSE DefaultClipLimit
    IN {[err |-> NoError, clipLimit |-> clipLimit, tiles |-> r.out] :
          r \in extractSize(opts, DefaultTiles)}
  ELSE IF Len(args) > 0 THEN
    LET p == parseClipLimit(args[1], DefaultClipLimit)
    IN IF p.ok
         THEN {[err |-> NoError, clipLimit |-> p.clipLimit, tiles |-> DefaultTiles]}
         ELSE {[err |-> IF r.ok THEN NoError ELSE InvalidArguments,
                clipLimit |-> p.clipLimit, tiles |-> r.out] :
                 r \in extractSize(args[1], DefaultTiles)}
  ELSE {[err |-> NoError, clipLimit |-> DefaultClipLimit, tiles |-> DefaultTiles]}

\* lines 112-114 of CLAHE::New, after a first stage that ended in `s`
SecondArgument(args, s) ==
  IF s.err # NoError THEN {s}
  ELSE IF Len(args) > 1 THEN
    {[err |-> IF r.ok THEN NoError ELSE UnableTileGridSize,
      clipLimit |-> s.clipLimit, tiles |-> r.out] : r \in extractSize(args[2], s.tiles)}
  ELSE {s}

\* CLAHE::New(info): the set of possible outcomes, each the error thrown (or
\* NoError) and the wrapped instance (NoObject when the call threw)
NewOutcomes(args) ==
  {IF s.err # NoError
     THEN [err |-> s.err, obj |-> NoObject]
     ELSE [err |-> NoError,
           obj |-> createCLAHE(StdMax(D(0, 0), s.clipLimit), sanitizeSize(s.tiles))] :
   s \in UNION {SecondArgument(args, f) : f \in FirstArgument(args)}}

\* info[n] of a handler: an argument that was not passed reads as undefined
Arg(args, n) == IF n < Len(args) THEN args[n + 1] ELSE Undefined

\* FF::DoubleConverter::arg(n, &value, info) for a required argument: reports
\* failure (true) unless the argument is a number
DoubleConverterArg(args, n) ==
  IF IsNumber(Arg(args, n))
    THEN [failed |-> FALSE, value |-> ToNumber(Arg(args, n))]
    ELSE [failed |-> TRUE, value |-> NaN]

\* an image (cv::Mat wrapper)
Mat == [t |-> "mat"]
\* Mat::Converter::arg(n, &mat, info): reports failure (true) unless the
\* argument is an image
MatConverterArg(args, n) == Arg(args, n).t # "mat"

\* CLAHE::SetClipLimit on the instance `self`: the error thrown and the
\* instance afterwards
SetClipLimitOutcome(self, args) ==
  LET c == DoubleConverterArg(args, 0)
  IN IF c.failed
       THEN [err |-> Rethrown, obj |-> self]
       ELSE [err |-> NoError,
             obj |-> [self EXCEPT !.clipLimit = StdMax(D(0, 0), c.value)]]

\* a faulty setter: the default grid is stored before the argument is parsed
SetTilesGridSizeOutcomes_ResetOnError(self, args) ==
  {IF ~r.ok
     THEN [err |-> UnableTilesGridSize,
           obj |-> [self EXCEPT !.tilesGridSize = sanitizeSize(Size(8, 8))]]
     ELSE [err |-> NoError,
           obj |-> [self EXCEPT !.tilesGridSize = sanitizeSize(r.out)]] :
   r \in extractSize(Arg(args, 0), sanitizeSize(Size(8, 8)))}

\* a faulty setter: it throws the constructor's message
SetTilesGridSizeOutcomes_CtorMessage(self, args) ==
  {IF ~r.ok
     THEN [err |-> UnableTileGridSize, obj |-> self]
     ELSE [err |-> NoError,
           obj |-> [self EXCEPT !.tilesGridSize = sanitizeSize(r.out)]] :
   r \in extractSize(Arg(args, 0), sanitizeSize(Size(8, 8)))}

\* CLAHE::SetTilesGridSize on the instance `self`: the possible outcomes
SetTilesGridSizeOutcomes(self, args) ==
  {IF ~r.ok
     THEN [err |-> UnableTilesGridSize, obj |-> self]
     ELSE [err |-> NoError,
           obj |-> [self EXCEPT !.tilesGridSize = sanitizeSize(r.out)]] :
   r \in extractSize(Arg(args, 0), sanitizeSize(Size(8, 8)))}

\* the value CLAHE::GetClipLimit and ClipLimitGetter return
GetClipLimitValue(self) == [t |-> "double", d |-> self.clipLimit]

\* the value CLAHE::GetTilesGridSize and TilesGridSizeGetter return
GetTilesGridSizeValue(self) ==
  [t |-> "size", width |-> ToDouble(self.tilesGridSize.width),
   height |-> ToDouble(self.tilesGridSize.height)]

\* info.This() / info.Holder(), the value a constructor or a setter returns
This == [t |-> "this"]

(***************************************************************************)
(* The arguments the calls are made with.                                  *)
(***************************************************************************)
Fracs == {0, 1, Scale \div 2}
GridDoubles(maxInt, fracs) == {D(i, f) : i \in -1..maxInt, f \in fracs}

Doubles == GridDoubles(MaxInt, Fracs) \cup {NaN, PosBig, NegBig}
Numbers == {Number(d) : d \in Doubles}
Elems == Numbers \cup {Undefined}
Prims == Numbers \cup {Undefined, Null, String}

One == Number(D(1, 0))
Two == Number(D(2, 0))
Half == Number(D(0, Scale \div 2))

Pairs == {Array(<<a, b>>) : a, b \in Elems}
Arrays == Pairs \cup {Array(<<>>), Array(<<Two>>), Array(<<Two, One, Two>>)}
\* an object without any of the properties the binding reads
EmptyObject == Object([other |-> String])
WidthHeightObjects ==
  {Object([width |-> a]) : a \in Elems}
    \cup {Object([height |-> a]) : a \in Elems}
    \cup {Object([width |-> a, height |-> b]) : a, b \in Elems}
NestedObjects ==
  {Object([tileGridSize |-> v]) : v \in Arrays \cup Prims}
    \cup {Object([tileGridSize |-> Object([width |-> Two, height |-> One])]),
          Object([tileGridSize |-> Object([tileGridSize |-> Array(<<Two, One>>)])]),
          Object([tileGridSize |-> EmptyObject])}
SizeValues == Prims \cup Arrays \cup WidthHeightObjects \cup NestedObjects \cup {EmptyObject}

Options ==
  WidthHeightObjects \cup NestedObjects \cup {EmptyObject}
    \cup {Object([clipLimit |-> c]) : c \in Prims}
    \cup {Object([clipLimit |-> c, tileGridSize |-> v]) : c \in Prims, v \in Arrays \cup Prims}
    \cup {Object([clipLimit |-> c, width |-> a]) : c \in Prims, a \in Elems}
    \cup {Object([clipLimit |-> c, height |-> a]) : c \in Prims, a \in Elems}
    \cup {Object([clipLimit |-> c, width |-> a, height |-> b]) : c \in Prims, a, b \in Elems}

FirstValues ==
  Prims \cup {Array(<<>>), Array(<<Two, One>>), EmptyObject,
              Object([clipLimit |-> Half]),
              Object([clipLimit |-> Half, tileGridSize |-> Array(<<Two, One>>)]),
              Object([width |-> Two])}

\* the argument lists of the constructor calls of SpecNew
CtorInfos ==
  {<<>>} \cup {<<a>> : a \in Prims \cup Arrays \cup Options}
    \cup {<<a, b>> : a \in FirstValues, b \in SizeValues}

LifeDoubles == GridDoubles(LifeMaxInt, {0, Scale \div 2}) \cup {NaN, PosBig}
LifeNumbers == {Number(d) : d \in LifeDoubles}
\* the elements of the arrays and the components of the objects: undefined
\* stands for the values that convert to NaN
LifeElems == (LifeNumbers \ {Number(NaN)}) \cup {Undefined}
LifeSizeValues ==
  LifeNumbers \cup {Undefined, String, EmptyObject, Array(<<>>)}
    \cup {Array(<<a, b>>) : a, b \in LifeElems}
    \cup {Object([width |-> a]) : a \in LifeElems}
    \cup {Object([height |-> a]) : a \in LifeElems}
    \cup {Object([tileGridSize |-> Array(<<Two, One>>)]),
          Object([tileGridSize |-> String])}
LifeFirstValues ==
  LifeNumbers \cup {Undefined, Null, String, Array(<<>>), Array(<<Two, One>>), EmptyObject,
                    Object([clipLimit |-> Half]),
                    Object([clipLimit |-> Null]),
                    Object([clipLimit |-> Half, tileGridSize |-> Array(<<Two, One>>)]),
                    Object([clipLimit |-> Half, tileGridSize |-> String]),
                    Object([height |-> Two])}
\* the argument lists of the constructor calls of Spec
LifeInfos ==
  {<<>>} \cup {<<a>> : a \in LifeFirstValues}
    \cup {<<a, b>> : a \in {Half, String, Object([clipLimit |-> Half])},
                     b \in {Array(<<Two, One>>), Two, String, Undefined,
                            Object([width |-> One]), Number(PosBig)}}
\* the argument lists of the setClipLimit calls of Spec
LifeClipInfos == {<<>>} \cup {<<a>> : a \in LifeNumbers \cup {Undefined, String}}
\* the argument lists of the setTilesGridSize calls of Spec
LifeTilesInfos == {<<>>} \cup {<<a>> : a \in LifeSizeValues}
\* the argument lists of the apply calls of Spec
LifeApplyInfos == {<<>>, <<Mat>>, <<Mat, Mat>>, <<Mat, Null>>, <<String>>, <<Mat, String>>}

(***************************************************************************)
(* The handlers.  `instance` is the cv::CLAHE behind the wrapper that was  *)
(* constructed last, `op`, `info`, `err` and `ret` are the last call, its  *)
(* arguments, the error it threw and the value it returned, `created`      *)
(* tells whether the last call invoked cv::createCLAHE.                    *)
(***************************************************************************)
\* CLAHE::New
New(args) ==
  \E o \in NewOutcomes(args) :
    /\ instance' = IF o.obj.made THEN o.obj ELSE instance
    /\ created' = o.obj.made
    /\ op' = "New"
    /\ info' = args
    /\ err' = o.err
    /\ ret' = IF o.err = NoError THEN This ELSE Undefined

\* CLAHE::Apply: the parameters are untouched, the result is an image
Apply ==
  /\ instance.made
  /\ \E args \in LifeApplyInfos :
       LET hasDst == Len(args) > 1 /\ ~IsUndefined(args[2]) /\ ~IsNull(args[2])
           failed == MatConverterArg(args, 0) \/ (hasDst /\ MatConverterArg(args, 1))
       IN /\ op' = "Apply"
          /\ info' = args
          /\ err' = IF failed THEN Rethrown ELSE NoError
          /\ ret' = IF failed THEN Undefined ELSE Mat
  /\ created' = FALSE
  /\ UNCHANGED instance

\* CLAHE::SetClipLimit
SetClipLimit ==
  /\ instance.made
  /\ \E args \in LifeClipInfos :
       LET o == SetClipLimitOutcome(instance, args)
       IN /\ instance' = o.obj
          /\ op' = "SetClipLimit"
          /\ info' = args
          /\ err' = o.err
          /\ ret' = IF o.err = NoError THEN This ELSE Undefined
  /\ created' = FALSE

\* CLAHE::GetClipLimit and ClipLimitGetter
GetClipLimit ==
  /\ instance.made
  /\ op' = "GetClipLimit"
  /\ info' = <<>>
  /\ err' = NoError
  /\ ret' = GetClipLimitValue(instance)
  /\ created' = FALSE
  /\ UNCHANGED instance

\* CLAHE::SetTilesGridSize
SetTilesGridSize ==
  /\ instance.made
  /\ \E args \in LifeTilesInfos :
       \E o \in SetTilesGridSizeOutcomes(instance, args) :
          /\ instance' = o.obj
          /\ op' = "SetTilesGridSize"
          /\ info' = args
          /\ err' = o.err
          /\ ret' = IF o.err = NoError THEN This ELSE Undefined
  /\ created' = FALSE

\* CLAHE::GetTilesGridSize and TilesGridSizeGetter
GetTilesGridSize ==
  /\ instance.made
  /\ op' = "GetTilesGridSize"
  /\ info' = <<>>
  /\ err' = NoError
  /\ ret' = GetTilesGridSizeValue(instance)
  /\ created' = FALSE
  /\ UNCHANGED instance

\* CLAHE::CollectGarbage
CollectGarbage ==
  /\ instance.made
  /\ op' = "CollectGarbage"
  /\ info' = <<>>
  /\ err' = NoError
  /\ ret' = This
  /\ created' = FALSE
  /\ UNCHANGED instance

\* a constructor call of the life cycle
Construct == \E args \in LifeInfos : New(args)

NoCall ==
  /\ instance = NoObject
  /\ err = NoError
  /\ ret = Undefined
  /\ created = FALSE

(***************************************************************************)
(* Spec: the life cycle of a wrapper.                                      *)
(***************************************************************************)
Init == NoCall /\ op = "init" /\ info = <<>>

Next ==
  \/ Construct
  \/ Apply
  \/ SetClipLimit
  \/ GetClipLimit
  \/ SetTilesGridSize
  \/ GetTilesGridSize
  \/ CollectGarbage

Spec == Init /\ [][Next]_vars

(***************************************************************************)
(* SpecNew: one constructor call, over the wide set of argument lists.     *)
(***************************************************************************)
InitNew == NoCall /\ op = "pending" /\ info \in CtorInfos

ConstructPending == op = "pending" /\ New(info)

NextNew == ConstructPending

SpecNew == InitNew /\ [][NextNew]_vars

(***************************************************************************)
(* SpecSize: extractSize as the constructor and the setter call it (with   *)
(* the default grid in `out`), on one value or on the three forms of a     *)
(* pair (w, h).                                                            *)
(***************************************************************************)
InitSize ==
  /\ NoCall
  /\ op = "pending"
  /\ info \in {<<v>> : v \in SizeValues} \cup {<<a, b>> : a, b \in Numbers}

Resolve ==
  /\ op = "pending"
  /\ Len(info) = 1
  /\ \E r \in extractSize(info[1], DefaultTiles) : ret' = r
  /\ op' = "extractSize"
  /\ UNCHANGED <<instance, info, err, created>>

ResolveForms ==
  /\ op = "pending"
  /\ Len(info) = 2
  /\ \E r1 \in extractSize(Array(<<info[1], info[2]>>), DefaultTiles) :
       \E r2 \in extractSize(Object([width |-> info[1], height |-> info[2]]), DefaultTiles) :
         \E r3 \in extractSize(Object([tileGridSize |-> Array(<<info[1], info[2]>>)]),
                               DefaultTiles) :
           ret' = <<r1, r2, r3>>
  /\ op' = "extractSizeForms"
  /\ UNCHANGED <<instance, info, err, created>>

NextSize == Resolve \/ ResolveForms

SpecSize == InitSize /\ [][NextSize]_vars

(***************************************************************************)
(* Vocabulary of the properties.                                           *)
(***************************************************************************)
Zero == D(0, 0)
\* d >= 0
NonNegative(d) == d.k # "nan" /\ ~Less(d, Zero)
\* d > 0
Positive(d) == Less(Zero, d)
\* d is finite and round(d) is representable as an int
FitsInt(d) == d.k = "fin"
\* d can be an integer >= 1 (a double above INT_MAX can be one)
IntegerGeq1(d) == (d.k = "fin" /\ d.f = 0 /\ d.i >= 1) \/ d = PosBig
\* the integer nearest to the finite d, the farther from zero of two
Nearest(d) ==
  IF 2 * d.f < Scale THEN d.i
  ELSE IF 2 * d.f > Scale THEN d.i + 1
  ELSE IF d.i >= 0 THEN d.i + 1 ELSE d.i
\* round(d) as a double
Rounded(d) == IF d.k = "fin" THEN D(Nearest(d), 0) ELSE d
\* max(1, round(d)) as a double
ClampedRound(d) == IF Less(Rounded(d), D(1, 0)) THEN D(1, 0) ELSE Rounded(d)
\* max(0, d)
ClampedClip(d) == IF NonNegative(d) THEN d ELSE Zero
\* getTilesGridSize() returns (w, h)
GridIs(self, w, h) == GetTilesGridSizeValue(self) = [t |-> "size", width |-> w, height |-> h]

IsNumberPair(v) ==
  IsArray(v) /\ Len(v.elems) = 2 /\ IsNumber(v.elems[1]) /\ IsNumber(v.elems[2])

\* the (c, w, h) of an argument list ({clipLimit: c, tileGridSize: [w, h]}) or
\* (c, [w, h]); empty for every other argument list
ConfigTriples(args) ==
  IF /\ Len(args) = 1
     /\ args[1].t = "object"
     /\ DOMAIN args[1].fields = {"clipLimit", "tileGridSize"}
     /\ IsNumber(args[1].fields.clipLimit)
     /\ IsNumberPair(args[1].fields.tileGridSize)
  THEN {<<args[1].fields.clipLimit.d, args[1].fields.tileGridSize.elems[1].d,
          args[1].fields.tileGridSize.elems[2].d>>}
  ELSE IF Len(args) = 2 /\ IsNumber(args[1]) /\ IsNumberPair(args[2])
  THEN {<<args[1].d, args[2].elems[1].d, args[2].elems[2].d>>}
  ELSE {}

\* the constructor succeeded with clip limit c and grid (w, h)
Constructed(c, w, h) ==
  /\ err = NoError
  /\ created
  /\ instance.made
  /\ instance.clipLimit = c
  /\ GridIs(instance, w, h)

(***************************************************************************)
(* C1                                                                      *)
(***************************************************************************)
\* C1 as stated: for every clip limit c >= 0 and integers w, h >= 1, the
\* constructor called with {clipLimit: c, tileGridSize: [w, h]} or with
\* (c, [w, h]) succeeds with clip limit c and grid (w, h).
C1_AnyIntegers ==
  op = "New" =>
    \A t \in ConfigTriples(info) :
      (NonNegative(t[1]) /\ IntegerGeq1(t[2]) /\ IntegerGeq1(t[3]))
        => Constructed(t[1], t[2], t[3])

\* C1 amended: the same for integers 1 <= w, h <= INT_MAX; both call forms
\* succeed with clip limit c and grid (w, h).
C1_IntRange ==
  op = "New" =>
    \A t \in ConfigTriples(info) :
      (NonNegative(t[1]) /\ IntegerGeq1(t[2]) /\ IntegerGeq1(t[3])
         /\ FitsInt(t[2]) /\ FitsInt(t[3]))
        => Constructed(t[1], t[2], t[3])

\* the object form was called with clipLimit 0.5 and tileGridSize [2, 1]
C1_Witness ==
  /\ op = "New"
  /\ info = <<Object([clipLimit |-> Half, tileGridSize |-> Array(<<Two, One>>)])>>
  /\ Constructed(D(0, Scale \div 2), D(2, 0), D(1, 0))

(***************************************************************************)
(* C2                                                                      *)
(***************************************************************************)
\* C2: a component the arguments do not supply takes its default: no
\* argument gives clip limit 40.0 and grid (8, 8), a sole number N > 0 gives
\* clip limit N and grid (8, 8), a sole array of two or more elements leaves
\* the clip limit at 40.0.
C2_Defaults ==
  op = "New" =>
    /\ info = <<>> => Constructed(D(40, 0), D(8, 0), D(8, 0))
    /\ (Len(info) = 1 /\ IsNumber(info[1]) /\ Positive(info[1].d))
         => Constructed(info[1].d, D(8, 0), D(8, 0))
    /\ (Len(info) = 1 /\ IsArray(info[1]) /\ Len(info[1].elems) >= 2)
         => (err = NoError /\ instance.made /\ instance.clipLimit = D(40, 0))

\* the constructor was called with the sole argument 2
C2_Witness ==
  /\ op = "New"
  /\ info = <<Two>>
  /\ Constructed(D(2, 0), D(8, 0), D(8, 0))

(***************************************************************************)
(* C3                                                                      *)
(***************************************************************************)
\* v is a plain configuration object: an object that is no array
PlainObject(v) == v.t = "object"
\* resolveSize recognizes v
Resolves(v) == \E r \in extractSize(v, DefaultTiles) : r.ok
\* resolveClipLimit accepts v
AcceptsClipLimit(v) == parseClipLimit(v, DefaultClipLimit).ok
\* case (1): a first argument that is no configuration object and is
\* accepted by neither resolveClipLimit nor resolveSize
BadFirst(args) ==
  Len(args) > 0 /\ ~PlainObject(args[1]) /\ ~AcceptsClipLimit(args[1]) /\ ~Resolves(args[1])
\* case (2): a second argument that resolveSize does not resolve
BadSecond(args) == Len(args) > 1 /\ ~Resolves(args[2])

\* C3: the constructor throws exactly when the first argument is bad
\* ("Invalid arguments for CLAHE constructor") or the second argument is bad
\* ("Unable to parse tileGridSize"); every other call succeeds, and a sole
\* configuration object whose size does not resolve keeps the grid (8, 8).
C3_ErrorsExactly ==
  op = "New" =>
    /\ err \in {NoError, InvalidArguments, UnableTileGridSize}
    /\ err = InvalidArguments <=> BadFirst(info)
    /\ err = UnableTileGridSize <=> (~BadFirst(info) /\ BadSecond(info))
    /\ err = NoError <=> (created /\ instance.made)
    /\ (Len(info) = 1 /\ PlainObject(info[1]) /\ ~Resolves(info[1]))
         => (err = NoError /\ GridIs(instance, D(8, 0), D(8, 0)))

\* a configuration object with an unrecognized tileGridSize was accepted
C3_Witness ==
  /\ op = "New"
  /\ info = <<Object([clipLimit |-> Half, tileGridSize |-> String])>>
  /\ err = NoError
  /\ GridIs(instance, D(8, 0), D(8, 0))

(***************************************************************************)
(* C4                                                                      *)
(***************************************************************************)
\* C4: a constructor call that throws creates no algorithm object, and a
\* constructor or setter call that throws leaves the clip limit and the grid
\* of the existing object as they were.
C4_NoPartialState ==
  [][(err' # NoError /\ op' \in {"New", "SetClipLimit", "SetTilesGridSize"})
       => (instance' = instance /\ ~created')]_vars

\* a setter threw on an object whose clip limit and grid had been changed
C4_Witness ==
  /\ op = "SetTilesGridSize"
  /\ err # NoError
  /\ instance.made
  /\ instance.clipLimit = D(1, 0)
  /\ instance.tilesGridSize = Size(2, 1)

(***************************************************************************)
(* C5                                                                      *)
(***************************************************************************)
\* C5: in every state of a constructed object the clip limit is >= 0 and
\* both components of the grid are >= 1.
C5_Invariant ==
  instance.made =>
    /\ NonNegative(instance.clipLimit)
    /\ instance.tilesGridSize.width >= 1
    /\ instance.tilesGridSize.height >= 1

\* setTilesGridSize was called with [-1, undefined] on an object whose clip
\* limit is 0
C5_Witness ==
  /\ op = "SetTilesGridSize"
  /\ info = <<Array(<<Number(D(-1, 0)), Undefined>>)>>
  /\ instance.clipLimit = Zero
  /\ err = NoError
  /\ instance.made

(***************************************************************************)
(* C6                                                                      *)
(***************************************************************************)
\* C6 as stated: every error the binding throws itself carries one of the
\* two messages "Invalid arguments for CLAHE constructor" and "Unable to
\* parse tileGridSize".
C6_TwoMessages == err \in {NoError, Rethrown, InvalidArguments, UnableTileGridSize}

\* C6 amended: the constructor throws one of those two messages, and the
\* setter setTilesGridSize throws a third, "Unable to parse tilesGridSize".
C6_ThreeMessages ==
  /\ err \in {NoError, Rethrown, InvalidArguments, UnableTileGridSize, UnableTilesGridSize}
  /\ op = "New" => err \in {NoError, InvalidArguments, UnableTileGridSize}
  /\ op = "SetTilesGridSize" => err \in {NoError, UnableTilesGridSize}

\* setTilesGridSize threw its own message
C6_Witness ==
  /\ op = "SetTilesGridSize"
  /\ info = <<String>>
  /\ err = UnableTilesGridSize

(***************************************************************************)
(* C7                                                                      *)
(***************************************************************************)
\* after a successful setClipLimit(x) with x >= 0, getClipLimit() returns x
ClipRoundTrip ==
  (op = "SetClipLimit" /\ err = NoError /\ NonNegative(info[1].d))
    => GetClipLimitValue(instance) = [t |-> "double", d |-> info[1].d]

\* C7 as stated: the clip limit round trip, and after a successful
\* setTilesGridSize([w, h]) (w, h not NaN) getTilesGridSize() returns
\* (max(1, round(w)), max(1, round(h))).
C7_AnyNumbers ==
  /\ ClipRoundTrip
  /\ (op = "SetTilesGridSize" /\ err = NoError /\ Len(info) = 1 /\ IsNumberPair(info[1])
        /\ info[1].elems[1].d # NaN /\ info[1].elems[2].d # NaN)
       => GridIs(instance, ClampedRound(info[1].elems[1].d), ClampedRound(info[1].elems[2].d))

\* C7 amended: the clip limit round trip, and the grid round trip for
\* finite w, h whose rounded values fit an int.
C7_FittingNumbers ==
  /\ ClipRoundTrip
  /\ (op = "SetTilesGridSize" /\ err = NoError /\ Len(info) = 1 /\ IsNumberPair(info[1])
        /\ FitsInt(info[1].elems[1].d) /\ FitsInt(info[1].elems[2].d))
       => GridIs(instance, ClampedRound(info[1].elems[1].d), ClampedRound(info[1].elems[2].d))

\* setTilesGridSize([1.5, -1]) succeeded on an object whose clip limit had
\* been changed before
C7_Witness ==
  /\ op = "SetTilesGridSize"
  /\ info = <<Array(<<Number(D(1, Scale \div 2)), Number(D(-1, 0))>>)>>
  /\ err = NoError
  /\ instance.clipLimit = D(1, 0)
  /\ GridIs(instance, D(2, 0), D(1, 0))

(***************************************************************************)
(* C8                                                                      *)
(***************************************************************************)
\* the three forms of (w, h) resolved, and to the same size
FormsAgree == \A n \in 1..3 : ret[n].ok /\ ret[n].out = ret[1].out

\* C8 as stated: for w, h > 0 the three forms [w, h], {width: w, height: h}
\* and {tileGridSize: [w, h]} all resolve, to (round(w), round(h)).
C8_Rounded ==
  (op = "extractSizeForms" /\ Positive(info[1].d) /\ Positive(info[2].d))
    => /\ FormsAgree
       /\ ToDouble(ret[1].out.width) = Rounded(info[1].d)
       /\ ToDouble(ret[1].out.height) = Rounded(info[2].d)

\* C8 amended: for w, h > 0 whose rounded values fit an int the three forms
\* all resolve, to (max(1, round(w)), max(1, round(h))).
C8_ClampedRounded ==
  (op = "extractSizeForms" /\ Positive(info[1].d) /\ Positive(info[2].d)
     /\ FitsInt(info[1].d) /\ FitsInt(info[2].d))
    => /\ FormsAgree
       /\ ToDouble(ret[1].out.width) = ClampedRound(info[1].d)
       /\ ToDouble(ret[1].out.height) = ClampedRound(info[2].d)

\* the three forms of (0.25, 1.5) were resolved
C8_Witness ==
  /\ op = "extractSizeForms"
  /\ info = <<Number(D(0, 1)), Number(D(1, Scale \div 2))>>
  /\ FormsAgree
  /\ ret[1].out = Size(1, 2)

(***************************************************************************)
(* C9                                                                      *)
(***************************************************************************)
\* C9: an object with only a width w (finite) resolves to
\* (max(1, round(w)), default height), one with only a height h to
\* (default width, max(1, round(h))); the default is (8, 8).
C9_MissingComponentDefault ==
  (op = "extractSize" /\ info[1].t = "object")
    => /\ (DOMAIN info[1].fields = {"width"} /\ IsNumber(info[1].fields.width)
             /\ FitsInt(info[1].fields.width.d))
            => /\ ret.ok
               /\ ToDouble(ret.out.width) = ClampedRound(info[1].fields.width.d)
               /\ ret.out.height = DefaultTiles.height
       /\ (DOMAIN info[1].fields = {"height"} /\ IsNumber(info[1].fields.height)
             /\ FitsInt(info[1].fields.height.d))
            => /\ ret.ok
               /\ ret.out.width = DefaultTiles.width
               /\ ToDouble(ret.out.height) = ClampedRound(info[1].fields.height.d)

(***************************************************************************)
(* C10                                                                     *)
(***************************************************************************)
\* C10: in the configuration-object form an absent, null or undefined
\* clipLimit leaves the clip limit at 40.0, and a numeric one is used,
\* clamped to >= 0.
C10_OptionsClipLimit ==
  (op = "New" /\ Len(info) = 1 /\ PlainObject(info[1]))
    => LET given == Get(info[1], "clipLimit")
       IN /\ (IsUndefined(given) \/ IsNull(given))
               => (err = NoError /\ instance.clipLimit = D(40, 0))
          /\ IsNumber(given)
               => (err = NoError /\ instance.clipLimit = ClampedClip(given.d))

====
